---- MODULE Spec2Model ----
(***************************************************************************)
(* dns-track-exporter: the monitoring goroutine of main.go, the Resolver   *)
(* of the dns package (Lookup and updateMetrics) and LoadConfig of the     *)
(* config package, as one state machine.                                   *)
(*                                                                         *)
(* Durations are integers (one unit of time.Duration); a GaugeVec or a     *)
(* CounterVec is a function from the label values of its existing series   *)
(* to their values, so that With(labels) on an absent label set creates    *)
(* the series.                                                             *)
(***************************************************************************)
EXTENDS Naturals, Integers, Sequences, FiniteSets, TLC

-----------------------------------------------------------------------------
(* Bounds of the model *)

\* lookups dispatched in one run
MaxLookups == 4
\* interval boundaries of the ticker in one run
MaxFired == 2

-----------------------------------------------------------------------------
(* Values *)

Nil == "nil"
NoResult == [none |-> TRUE]
Done == <<0, 0, 0>>

\* net.IP values: the family and the text form IP.String() prints
ip4a == [fam |-> 4, text |-> "192.0.2.1"]
ip4b == [fam |-> 4, text |-> "192.0.2.2"]
ip6a == [fam |-> 6, text |-> "2001:db8::1"]

IPAddr(ip) == [IP |-> ip, Zone |-> ""]

\* ip.IP.String() of a net.IPAddr: the zone is not part of the text
IPString(a) == a.IP.text

\* The durations a lookup measures: a short and a long one
Durations == {1, 3}

\* What the name servers hold for a name at the time of one lookup: a
\* transport or name error, or the address records of both families.
Worlds ==
    { [err |-> "i/o timeout", addrs |-> <<>>],
      [err |-> Nil, addrs |-> <<IPAddr(ip4a)>>],
      [err |-> Nil, addrs |-> <<IPAddr(ip6a)>>],
      [err |-> Nil, addrs |-> <<IPAddr(ip6a), IPAddr(ip4b), IPAddr(ip4a)>>] }

-----------------------------------------------------------------------------
(* config package *)

DefaultPort == 9653
DefaultInterval == 30
DefaultTimeout == 10

EmptyConfig ==
    [Port |-> 0, Interval |-> 0, Timeout |-> 0, DNSServers |-> <<>>, Targets |-> <<>>]

google == [Name |-> "google", Address |-> "8.8.8.8"]
system == [Name |-> "system", Address |-> ""]

\* The configuration files of the model: what os.ReadFile and yaml.Unmarshal
\* make of them.
Files ==
    { [readable |-> FALSE, wellformed |-> FALSE, yaml |-> EmptyConfig],
      [readable |-> TRUE, wellformed |-> FALSE, yaml |-> EmptyConfig],
      \* two targets x one server x one record type
      [readable |-> TRUE, wellformed |-> TRUE, yaml |->
        [Port |-> 0, Interval |-> 0, Timeout |-> 0,
         DNSServers |-> <<google>>,
         Targets |-> << [FQDN |-> "a.test", RecordTypes |-> <<"A">>],
                        [FQDN |-> "b.test", RecordTypes |-> <<"A">>] >>]],
      \* one target x two servers x two record types
      [readable |-> TRUE, wellformed |-> TRUE, yaml |->
        [Port |-> 8080, Interval |-> 5, Timeout |-> 2,
         DNSServers |-> <<google, system>>,
         Targets |-> << [FQDN |-> "a.test", RecordTypes |-> <<"AAAA", "">>] >>]],
      \* two targets x two servers x one record type each
      [readable |-> TRUE, wellformed |-> TRUE, yaml |->
        [Port |-> 0, Interval |-> 5, Timeout |-> 0,
         DNSServers |-> <<system, google>>,
         Targets |-> << [FQDN |-> "b.test", RecordTypes |-> <<"">>],
                        [FQDN |-> "a.test", RecordTypes |-> <<"A">>] >>]],
      \* a target without record types, and a target with a record type
      \* in lower case next to the one in upper case
      [readable |-> TRUE, wellformed |-> TRUE, yaml |->
        [Port |-> 0, Interval |-> 0, Timeout |-> 2,
         DNSServers |-> <<system>>,
         Targets |-> << [FQDN |-> "a.test", RecordTypes |-> <<>>],
                        [FQDN |-> "b.test", RecordTypes |-> <<"a", "A">>] >>]],
      \* no DNS server
      [readable |-> TRUE, wellformed |-> TRUE, yaml |->
        [Port |-> 0, Interval |-> 0, Timeout |-> 0,
         DNSServers |-> <<>>,
         Targets |-> << [FQDN |-> "a.test", RecordTypes |-> <<"A">>] >>]] }

\* LoadConfig with defaults for empty lists too: the system resolver for no
\* DNS server, the record type "" for a target without record types
LoadConfigDefaultLists(file) ==
    IF ~file.readable THEN [config |-> EmptyConfig, err |-> "failed to read config file"]
    ELSE IF ~file.wellformed THEN [config |-> EmptyConfig, err |-> "failed to parse config file"]
    ELSE LET c == file.yaml IN
         [config |-> [c EXCEPT
                        !.Port = IF c.Port = 0 THEN DefaultPort ELSE c.Port,
                        !.Interval = IF c.Interval = 0 THEN DefaultInterval ELSE c.Interval,
                        !.Timeout = IF c.Timeout = 0 THEN DefaultTimeout ELSE c.Timeout,
                        !.DNSServers = IF c.DNSServers = <<>> THEN <<system>> ELSE c.DNSServers,
                        !.Targets = [i \in 1..Len(c.Targets) |->
                            IF c.Targets[i].RecordTypes = <<>>
                               THEN [c.Targets[i] EXCEPT !.RecordTypes = <<"">>]
                               ELSE c.Targets[i]]],
          err |-> Nil]

\* LoadConfig: [config, err]
LoadConfig(file) ==
    IF ~file.readable THEN [config |-> EmptyConfig, err |-> "failed to read config file"]
    ELSE IF ~file.wellformed THEN [config |-> EmptyConfig, err |-> "failed to parse config file"]
    ELSE LET c == file.yaml IN
         [config |-> [c EXCEPT
                        !.Port = IF c.Port = 0 THEN DefaultPort ELSE c.Port,
                        !.Interval = IF c.Interval = 0 THEN DefaultInterval ELSE c.Interval,
                        !.Timeout = IF c.Timeout = 0 THEN DefaultTimeout ELSE c.Timeout],
          err |-> Nil]

-----------------------------------------------------------------------------
(* State *)

VARIABLES
    mainpc,             \* main: "load", "init", "serve", "listening", "fatal"
    cfg,                \* the *Config main holds
    pc,                 \* monitoring goroutine: "none", "start", "loop", "lookup", "wait"
    pos,                \* <<target, server, record type>> indices of the nested range loops, or Done
    tickerOn,           \* time.NewTicker has been called
    tickerC,            \* ticks held by ticker.C
    responseTime,       \* dns_response_time_seconds
    resolutionSuccess,  \* dns_resolution_success
    resolvedIpCount,    \* dns_resolved_ip_count
    queryTotal,         \* dns_query_total
    resolvedIpAddress,  \* dns_resolved_ip_address
    result,             \* the *Result the last Lookup returned
    \* history, read by the properties only
    world,              \* what the name servers held at the last lookup
    inflight,           \* lookups dispatched and not yet returned
    lookups,            \* lookups dispatched so far
    fired,              \* interval boundaries so far
    dropped,            \* interval boundaries the ticker dropped
    executed,           \* passes over the cross-product started so far
    hist,               \* per label triple: calls recorded, last outcome, last successful outcome
    tickLog,            \* label triples recorded in the current pass, in order
    \* updateMetrics and the /metrics handler, statement by statement
    upc,                \* position in updateMetrics: <<statement, index of the address>>
    hpc,                \* handler of GET /metrics: "idle", "reading"
    need,               \* the scrape in progress: the series there were when it began,
                        \* and the lookup in flight then (0: none)
    snap,               \* series -> value read, of the scrape in progress
    pre                 \* the five vectors when updateMetrics was entered

metrics == <<responseTime, resolutionSuccess, resolvedIpCount, queryTotal, resolvedIpAddress>>
ticker == <<tickerOn, tickerC, fired, dropped>>
conc == <<upc, hpc, need, snap, pre>>
vars == <<mainpc, cfg, pc, pos, ticker, metrics, result, world, inflight, lookups,
          executed, hist, tickLog, conc>>

-----------------------------------------------------------------------------
(* prometheus vectors *)

\* vec.With(labels).Set(v)
GaugeSet(vec, labels, v) ==
    [k \in DOMAIN vec \cup {labels} |-> IF k = labels THEN v ELSE vec[k]]

\* vec.With(labels).Inc()
CounterInc(vec, labels) ==
    [k \in DOMAIN vec \cup {labels} |->
        IF k = labels THEN (IF k \in DOMAIN vec THEN vec[k] ELSE 0) + 1 ELSE vec[k]]

-----------------------------------------------------------------------------
(* dns package *)

FilterFamily(addrs, fam) == SelectSeq(addrs, LAMBDA a : a.IP.fam = fam)

\* net.Resolver: the addresses of the requested network, or an error; an
\* error comes with no addresses, and so does a name without an address of
\* the requested network.
internetAddrList(network, w) ==
    IF w.err # Nil THEN [addrs |-> <<>>, err |-> w.err]
    ELSE LET f == IF network = "ip4" THEN FilterFamily(w.addrs, 4)
                  ELSE IF network = "ip6" THEN FilterFamily(w.addrs, 6)
                  ELSE w.addrs
         IN IF f = <<>> THEN [addrs |-> <<>>, err |-> "no suitable address found"]
            ELSE [addrs |-> f, err |-> Nil]

\* resolver.LookupIP(ctx, network, fqdn): []net.IP, error
LookupIP(network, w) ==
    LET r == internetAddrList(network, w)
    IN [ips |-> [i \in 1..Len(r.addrs) |-> r.addrs[i].IP], err |-> r.err]

\* resolver.LookupIPAddr(ctx, fqdn): []net.IPAddr, error
LookupIPAddr(w) ==
    LET r == internetAddrList("ip", w)
    IN [ips |-> r.addrs, err |-> r.err]

\* resolve with the A branch asking for both networks
resolveAnyNetwork(recordType, w) ==
    IF recordType = "A" THEN
        LET r == LookupIP("ip", w)
        IN [ips |-> IF r.err = Nil THEN [i \in 1..Len(r.ips) |-> IPAddr(r.ips[i])] ELSE <<>>,
            err |-> r.err]
    ELSE IF recordType = "AAAA" THEN
        LET r == LookupIP("ip6", w)
        IN [ips |-> IF r.err = Nil THEN [i \in 1..Len(r.ips) |-> IPAddr(r.ips[i])] ELSE <<>>,
            err |-> r.err]
    ELSE LookupIPAddr(w)

\* resolve matching the record type without regard to case
resolveAnyCase(recordType, w) ==
    IF recordType \in {"A", "a"} THEN
        LET r == LookupIP("ip4", w)
        IN [ips |-> IF r.err = Nil THEN [i \in 1..Len(r.ips) |-> IPAddr(r.ips[i])] ELSE <<>>,
            err |-> r.err]
    ELSE IF recordType \in {"AAAA", "aaaa"} THEN
        LET r == LookupIP("ip6", w)
        IN [ips |-> IF r.err = Nil THEN [i \in 1..Len(r.ips) |-> IPAddr(r.ips[i])] ELSE <<>>,
            err |-> r.err]
    ELSE LookupIPAddr(w)

\* The switch on recordType of Lookup: the values of ips and err after it
resolve(recordType, w) ==
    IF recordType = "A" THEN
        LET r == LookupIP("ip4", w)
        IN [ips |-> IF r.err = Nil THEN [i \in 1..Len(r.ips) |-> IPAddr(r.ips[i])] ELSE <<>>,
            err |-> r.err]
    ELSE IF recordType = "AAAA" THEN
        LET r == LookupIP("ip6", w)
        IN [ips |-> IF r.err = Nil THEN [i \in 1..Len(r.ips) |-> IPAddr(r.ips[i])] ELSE <<>>,
            err |-> r.err]
    ELSE LookupIPAddr(w)

Labels(r) == <<r.FQDN, r.RecordType, r.DNSServer>>

\* NewResult with the comparison of Success inverted
NewResultInverted(fqdn, dnsServer, recordType, r, duration) ==
    [FQDN |-> fqdn, RecordType |-> recordType, DNSServer |-> dnsServer,
     IPs |-> r.ips, Duration |-> duration, Success |-> (r.err # Nil), Error |-> r.err]

\* The Result Lookup builds from ips, err and the measured duration
NewResult(fqdn, dnsServer, recordType, r, duration) ==
    [FQDN |-> fqdn, RecordType |-> recordType, DNSServer |-> dnsServer,
     IPs |-> r.ips, Duration |-> duration, Success |-> (r.err = Nil), Error |-> r.err]

\* updateResponseTime keeping the longest duration seen
updateResponseTimeMax(r) ==
    responseTime' = GaugeSet(responseTime, Labels(r),
                             IF Labels(r) \in DOMAIN responseTime
                                   /\ responseTime[Labels(r)] > r.Duration
                                THEN responseTime[Labels(r)] ELSE r.Duration)

\* updateResponseTime setting every series of the name, whatever its record
\* type and server
updateResponseTimeOfName(r) ==
    responseTime' =
        [k \in DOMAIN responseTime \cup {Labels(r)} |->
            IF k[1] = r.FQDN THEN r.Duration ELSE responseTime[k]]

\* r.responseTime.With(labels).Set(result.Duration.Seconds())
updateResponseTime(r) ==
    responseTime' = GaugeSet(responseTime, Labels(r), r.Duration)

\* updateFailure without the increment of the failure counter
updateFailureNoInc(r) ==
    /\ resolutionSuccess' = GaugeSet(resolutionSuccess, Labels(r), 0)
    /\ UNCHANGED <<queryTotal, resolvedIpCount, resolvedIpAddress>>

\* updateFailure resetting the address count
updateFailureZeroCount(r) ==
    /\ resolutionSuccess' = GaugeSet(resolutionSuccess, Labels(r), 0)
    /\ resolvedIpCount' = GaugeSet(resolvedIpCount, Labels(r), 0)
    /\ queryTotal' = CounterInc(queryTotal, <<r.FQDN, r.RecordType, r.DNSServer, "failure">>)
    /\ UNCHANGED resolvedIpAddress

\* the branch of a failed resolution
updateFailure(r) ==
    /\ resolutionSuccess' = GaugeSet(resolutionSuccess, Labels(r), 0)
    /\ queryTotal' = CounterInc(queryTotal, <<r.FQDN, r.RecordType, r.DNSServer, "failure">>)
    /\ UNCHANGED <<resolvedIpCount, resolvedIpAddress>>

\* updateSuccess incrementing the counter of the other status
updateSuccessAsFailure(r) ==
    /\ resolutionSuccess' = GaugeSet(resolutionSuccess, Labels(r), 1)
    /\ resolvedIpCount' = GaugeSet(resolvedIpCount, Labels(r), Len(r.IPs))
    /\ queryTotal' = CounterInc(queryTotal, <<r.FQDN, r.RecordType, r.DNSServer, "failure">>)

\* the gauges and the counter of a successful resolution
updateSuccess(r) ==
    /\ resolutionSuccess' = GaugeSet(resolutionSuccess, Labels(r), 1)
    /\ resolvedIpCount' = GaugeSet(resolvedIpCount, Labels(r), Len(r.IPs))
    /\ queryTotal' = CounterInc(queryTotal, <<r.FQDN, r.RecordType, r.DNSServer, "success">>)

\* updateAddresses setting the other addresses of the triple to 0
updateAddressesClear(r) ==
    LET ipLabels == { <<r.FQDN, r.RecordType, r.DNSServer, IPString(r.IPs[i])>> :
                        i \in 1..Len(r.IPs) }
    IN resolvedIpAddress' =
          [k \in DOMAIN resolvedIpAddress \cup ipLabels |->
              IF k \in ipLabels THEN 1
              ELSE IF <<k[1], k[2], k[3]>> = Labels(r) THEN 0
              ELSE resolvedIpAddress[k]]

\* updateAddresses deleting the other addresses of the triple
updateAddressesDelete(r) ==
    LET ipLabels == { <<r.FQDN, r.RecordType, r.DNSServer, IPString(r.IPs[i])>> :
                        i \in 1..Len(r.IPs) }
        kept == {k \in DOMAIN resolvedIpAddress : <<k[1], k[2], k[3]>> # Labels(r)}
    IN resolvedIpAddress' =
          [k \in kept \cup ipLabels |->
              IF k \in ipLabels THEN 1 ELSE resolvedIpAddress[k]]

\* the loop over result.IPs
updateAddresses(r) ==
    LET ipLabels == { <<r.FQDN, r.RecordType, r.DNSServer, IPString(r.IPs[i])>> :
                        i \in 1..Len(r.IPs) }
    IN resolvedIpAddress' =
          [k \in DOMAIN resolvedIpAddress \cup ipLabels |->
              IF k \in ipLabels THEN 1 ELSE resolvedIpAddress[k]]

updateMetrics(r) ==
    /\ updateResponseTime(r)
    /\ IF ~r.Success
          THEN updateFailure(r)
          ELSE updateSuccess(r) /\ updateAddresses(r)

-----------------------------------------------------------------------------
(* main *)

\* Seek leaving the loop over the DNS servers after the first server
RECURSIVE SeekFirstServer(_, _, _)
SeekFirstServer(ti, si, ri) ==
    IF ti > Len(cfg.Targets) THEN Done
    ELSE IF si > Len(cfg.DNSServers) THEN SeekFirstServer(ti + 1, 1, 1)
    ELSE IF ri > Len(cfg.Targets[ti].RecordTypes) THEN SeekFirstServer(ti + 1, 1, 1)
    ELSE <<ti, si, ri>>

\* The position of the nested range loops (targets, DNS servers, record
\* types) at or after <<ti, si, ri>>: the next triple the body runs for,
\* or Done when the three loops are over.
RECURSIVE Seek(_, _, _)
Seek(ti, si, ri) ==
    IF ti > Len(cfg.Targets) THEN Done
    ELSE IF si > Len(cfg.DNSServers) THEN Seek(ti + 1, 1, 1)
    ELSE IF ri > Len(cfg.Targets[ti].RecordTypes) THEN Seek(ti, si + 1, 1)
    ELSE <<ti, si, ri>>

ArgsAt(p) ==
    [fqdn |-> cfg.Targets[p[1]].FQDN,
     dnsServer |-> cfg.DNSServers[p[2]].Address,
     recordType |-> cfg.Targets[p[1]].RecordTypes[p[3]]]

Idle == <<"idle", 0>>

NoScrape == [series |-> {}, at |-> 0]

NoHist == [calls |-> 0, okSeen |-> FALSE, okCount |-> 0]

Init ==
    /\ mainpc = "load"
    /\ cfg = EmptyConfig
    /\ pc = "none"
    /\ pos = Done
    /\ tickerOn = FALSE
    /\ tickerC = 0
    /\ responseTime = <<>>
    /\ resolutionSuccess = <<>>
    /\ resolvedIpCount = <<>>
    /\ queryTotal = <<>>
    /\ resolvedIpAddress = <<>>
    /\ result = NoResult
    /\ world = NoResult
    /\ inflight = {}
    /\ lookups = 0
    /\ fired = 0
    /\ dropped = 0
    /\ executed = 0
    /\ hist = <<>>
    /\ tickLog = <<>>
    /\ upc = Idle
    /\ hpc = "idle"
    /\ need = NoScrape
    /\ snap = <<>>
    /\ pre = <<>>

\* config.LoadConfig returned a configuration
LoadConfigOk ==
    /\ mainpc = "load"
    /\ \E file \in Files :
          /\ LoadConfig(file).err = Nil
          /\ cfg' = LoadConfig(file).config
    /\ mainpc' = "init"
    /\ UNCHANGED <<pc, pos, ticker, metrics, result, world, inflight, lookups,
                   executed, hist, tickLog>>
    /\ UNCHANGED conc

\* LoadConfigErr with the error logged only: main goes on
LoadConfigErrIgnored ==
    /\ mainpc = "load"
    /\ \E file \in Files : LoadConfig(file).err # Nil
    /\ mainpc' = "init"
    /\ UNCHANGED <<cfg, pc, pos, ticker, metrics, result, world, inflight, lookups,
                   executed, hist, tickLog>>
    /\ UNCHANGED conc

\* config.LoadConfig returned an error: log.Fatalf
LoadConfigErr ==
    /\ mainpc = "load"
    /\ \E file \in Files : LoadConfig(file).err # Nil
    /\ mainpc' = "fatal"
    /\ UNCHANGED <<cfg, pc, pos, ticker, metrics, result, world, inflight, lookups,
                   executed, hist, tickLog>>
    /\ UNCHANGED conc

\* dns.NewResolver and the go statement
StartMonitoring ==
    /\ mainpc = "init"
    /\ mainpc' = "serve"
    /\ pc' = "start"
    /\ UNCHANGED <<cfg, pos, ticker, metrics, result, world, inflight, lookups,
                   executed, hist, tickLog>>
    /\ UNCHANGED conc

\* http.ListenAndServe has bound the port and serves /metrics
Listen ==
    /\ mainpc = "serve"
    /\ mainpc' = "listening"
    /\ UNCHANGED <<cfg, pc, pos, ticker, metrics, result, world, inflight, lookups,
                   executed, hist, tickLog>>
    /\ UNCHANGED conc

\* http.ListenAndServe returned an error: log.Fatalf ends the process, and
\* the monitoring goroutine with it
ListenFail ==
    /\ mainpc = "serve"
    /\ mainpc' = "fatal"
    /\ UNCHANGED <<cfg, pc, pos, ticker, metrics, result, world, inflight, lookups,
                   executed, hist, tickLog>>
    /\ UNCHANGED conc

\* The process has not ended
Running == mainpc # "fatal"

\* NewTicker followed by a loop that receives from ticker.C before its
\* first pass
NewTickerThenWait ==
    /\ mainpc # "fatal"
    /\ pc = "start"
    /\ tickerOn' = TRUE
    /\ pc' = "wait"
    /\ UNCHANGED <<mainpc, cfg, pos, tickerC, fired, dropped, metrics, result, world,
                   inflight, lookups, executed, hist, tickLog>>
    /\ UNCHANGED conc

\* time.NewTicker, and the first entry of the for loop
NewTicker ==
    /\ Running
    /\ pc = "start"
    /\ tickerOn' = TRUE
    /\ pc' = "loop"
    /\ pos' = Seek(1, 1, 1)
    /\ executed' = executed + 1
    /\ tickLog' = <<>>
    /\ UNCHANGED <<mainpc, cfg, tickerC, fired, dropped, metrics, result, world,
                   inflight, lookups, hist>>
    /\ UNCHANGED conc

\* The runtime's ticker at an interval boundary: ticker.C holds one tick, a
\* tick that finds it full is dropped.
TickerFire ==
    /\ Running
    /\ tickerOn
    /\ fired < MaxFired
    /\ fired' = fired + 1
    /\ IF tickerC = 0
          THEN tickerC' = 1 /\ dropped' = dropped
          ELSE tickerC' = tickerC /\ dropped' = dropped + 1
    /\ UNCHANGED <<mainpc, cfg, pc, pos, tickerOn, metrics, result, world, inflight,
                   lookups, executed, hist, tickLog>>
    /\ UNCHANGED conc

\* LookupDispatch as a go statement: the loop goes on without the result
LookupDispatchAsync ==
    /\ pc = "loop"
    /\ pos # Done
    /\ lookups < MaxLookups
    /\ pc' = "loop"
    /\ pos' = IF pos[3] < Len(cfg.Targets[pos[1]].RecordTypes)
                 THEN <<pos[1], pos[2], pos[3] + 1>>
              ELSE IF pos[2] < Len(cfg.DNSServers) THEN <<pos[1], pos[2] + 1, 1>>
              ELSE IF pos[1] < Len(cfg.Targets) THEN <<pos[1] + 1, 1, 1>>
              ELSE Done
    /\ inflight' = inflight \cup {[tick |-> executed, at |-> pos]}
    /\ lookups' = lookups + 1
    /\ UNCHANGED <<mainpc, cfg, ticker, metrics, result, world, executed, hist,
                   tickLog>>
    /\ UNCHANGED conc

\* The call of resolver.Lookup in the loop body, up to the resolver's call
\* of the network
LookupDispatch ==
    /\ Running
    /\ pc = "loop"
    /\ pos # Done
    /\ lookups < MaxLookups
    /\ pc' = "lookup"
    /\ inflight' = inflight \cup {[tick |-> executed, at |-> pos]}
    /\ lookups' = lookups + 1
    /\ UNCHANGED <<mainpc, cfg, pos, ticker, metrics, result, world, executed, hist,
                   tickLog>>
    /\ UNCHANGED conc

HistAfter(r) ==
    LET l == Labels(r)
        old == IF l \in DOMAIN hist THEN hist[l] ELSE NoHist
        new == [calls |-> old.calls + 1, elapsed |-> r.Duration, succeeded |-> r.Success,
                okSeen |-> old.okSeen \/ r.Success,
                okCount |-> IF r.Success THEN Len(r.IPs) ELSE old.okCount]
    IN [k \in DOMAIN hist \cup {l} |-> IF k = l THEN new ELSE hist[k]]

\* LookupReturn ending the monitoring goroutine on a failed resolution
LookupReturnStopOnFailure ==
    /\ mainpc # "fatal"
    /\ pc = "lookup"
    /\ \E w \in Worlds, d \in Durations, a \in {ArgsAt(pos)} :
          \E r \in {NewResult(a.fqdn, a.dnsServer, a.recordType, resolve(a.recordType, w), d)} :
             /\ world' = w
             /\ result' = r
             /\ updateMetrics(r)
             /\ hist' = HistAfter(r)
             /\ tickLog' = Append(tickLog, Labels(r))
             /\ pc' = IF r.Success THEN "loop" ELSE "stopped"
    /\ inflight' = inflight \ {[tick |-> executed, at |-> pos]}
    /\ pos' = Seek(pos[1], pos[2], pos[3] + 1)
    /\ UNCHANGED <<mainpc, cfg, ticker, lookups, executed>>
    /\ UNCHANGED conc

\* The rest of resolver.Lookup: the resolver's answer, the Result,
\* updateMetrics, and the step of the range loops
LookupReturn ==
    /\ Running
    /\ pc = "lookup"
    /\ \E w \in Worlds, d \in Durations, a \in {ArgsAt(pos)} :
          \E r \in {NewResult(a.fqdn, a.dnsServer, a.recordType, resolve(a.recordType, w), d)} :
             /\ world' = w
             /\ result' = r
             /\ updateMetrics(r)
             /\ hist' = HistAfter(r)
             /\ tickLog' = Append(tickLog, Labels(r))
    /\ inflight' = inflight \ {[tick |-> executed, at |-> pos]}
    /\ pos' = Seek(pos[1], pos[2], pos[3] + 1)
    /\ pc' = "loop"
    /\ UNCHANGED <<mainpc, cfg, ticker, lookups, executed>>
    /\ UNCHANGED conc

\* The three range loops are over: the goroutine blocks on <-ticker.C
EndPass ==
    /\ Running
    /\ pc = "loop"
    /\ pos = Done
    /\ pc' = "wait"
    /\ UNCHANGED <<mainpc, cfg, pos, ticker, metrics, result, world, inflight, lookups,
                   executed, hist, tickLog>>
    /\ UNCHANGED conc

\* TickReceive as a receive that does not block on an empty ticker.C
TickReceiveNonBlocking ==
    /\ pc = "wait"
    /\ executed <= MaxFired
    /\ tickerC' = IF tickerC > 0 THEN tickerC - 1 ELSE 0
    /\ pc' = "loop"
    /\ pos' = Seek(1, 1, 1)
    /\ executed' = executed + 1
    /\ tickLog' = <<>>
    /\ UNCHANGED <<mainpc, cfg, tickerOn, fired, dropped, metrics, result, world,
                   inflight, lookups, hist>>
    /\ UNCHANGED conc

\* <-ticker.C receives a tick: the next iteration of the for loop
TickReceive ==
    /\ Running
    /\ pc = "wait"
    /\ tickerC > 0
    /\ tickerC' = tickerC - 1
    /\ pc' = "loop"
    /\ pos' = Seek(1, 1, 1)
    /\ executed' = executed + 1
    /\ tickLog' = <<>>
    /\ UNCHANGED <<mainpc, cfg, tickerOn, fired, dropped, metrics, result, world,
                   inflight, lookups, hist>>
    /\ UNCHANGED conc

Next ==
    \/ LoadConfigOk
    \/ LoadConfigErr
    \/ StartMonitoring
    \/ Listen
    \/ ListenFail
    \/ NewTicker
    \/ TickerFire
    \/ LookupDispatch
    \/ LookupReturn
    \/ EndPass
    \/ TickReceive

Spec == Init /\ [][Next]_vars

\* A step of the monitoring goroutine; its steps exclude one another
Monitor ==
    \/ NewTicker
    \/ LookupDispatch
    \/ LookupReturn
    \/ EndPass
    \/ TickReceive

\* The monitoring goroutine is scheduled and the resolver answers or times
\* out; the ticker's clock goes on.
Fairness ==
    /\ WF_vars(Monitor)
    /\ WF_vars(TickerFire)

\* main has loaded the configuration of two targets, one server and one
\* record type
LoadedInit ==
    /\ mainpc = "init"
    /\ \E file \in Files :
          /\ LoadConfig(file).err = Nil
          /\ Len(file.yaml.Targets) = 2
          /\ Len(file.yaml.DNSServers) = 1
          /\ \A i \in 1..2 : Len(file.yaml.Targets[i].RecordTypes) = 1
          /\ cfg = LoadConfig(file).config
    /\ pc = "none"
    /\ pos = Done
    /\ tickerOn = FALSE
    /\ tickerC = 0
    /\ responseTime = <<>>
    /\ resolutionSuccess = <<>>
    /\ resolvedIpCount = <<>>
    /\ queryTotal = <<>>
    /\ resolvedIpAddress = <<>>
    /\ result = NoResult
    /\ world = NoResult
    /\ inflight = {}
    /\ lookups = 0
    /\ fired = 0
    /\ dropped = 0
    /\ executed = 0
    /\ hist = <<>>
    /\ tickLog = <<>>
    /\ upc = Idle
    /\ hpc = "idle"
    /\ need = NoScrape
    /\ snap = <<>>
    /\ pre = <<>>

LoadedNext ==
    \/ StartMonitoring
    \/ Listen
    \/ ListenFail
    \/ NewTicker
    \/ TickerFire
    \/ LookupDispatch
    \/ LookupReturn
    \/ EndPass
    \/ TickReceive

FairSpec == LoadedInit /\ [][LoadedNext]_vars /\ Fairness

-----------------------------------------------------------------------------
(* updateMetrics on any Result *)

MaxRecords == 2

\* The values a *Result can hold: Success, IPs and Error are three
\* independent fields of the struct
Results ==
    { [FQDN |-> f, RecordType |-> "A", DNSServer |-> google.Address, IPs |-> ips,
       Duration |-> d, Success |-> ok, Error |-> e] :
         f \in {"a.test", "b.test"}, ips \in {<<>>, <<IPAddr(ip4a)>>, <<IPAddr(ip4a), IPAddr(ip4b)>>},
         d \in Durations, ok \in BOOLEAN, e \in {Nil, "i/o timeout"} }

\* r.updateMetrics(result) called with any *Result
Record ==
    /\ lookups < MaxRecords
    /\ \E r \in Results :
          /\ result' = r
          /\ updateMetrics(r)
          /\ hist' = HistAfter(r)
    /\ lookups' = lookups + 1
    /\ UNCHANGED <<mainpc, cfg, pc, pos, ticker, world, inflight, executed, tickLog>>
    /\ UNCHANGED conc

RecordSpec == Init /\ [][Record]_vars

-----------------------------------------------------------------------------
(* updateMetrics statement by statement, next to the /metrics handler *)

MaxConcLookups == 2

\* one target x one server x one record type
single ==
    [readable |-> TRUE, wellformed |-> TRUE, yaml |->
      [Port |-> 0, Interval |-> 0, Timeout |-> 0,
       DNSServers |-> <<google>>,
       Targets |-> << [FQDN |-> "a.test", RecordTypes |-> <<"A">>] >>]]

\* main serves /metrics and the monitoring goroutine is about to run
ConcInit ==
    /\ mainpc = "listening"
    /\ cfg = LoadConfig(single).config
    /\ pc = "start"
    /\ pos = Done
    /\ tickerOn = FALSE
    /\ tickerC = 0
    /\ responseTime = <<>>
    /\ resolutionSuccess = <<>>
    /\ resolvedIpCount = <<>>
    /\ queryTotal = <<>>
    /\ resolvedIpAddress = <<>>
    /\ result = NoResult
    /\ world = NoResult
    /\ inflight = {}
    /\ lookups = 0
    /\ fired = 0
    /\ dropped = 0
    /\ executed = 0
    /\ hist = <<>>
    /\ tickLog = <<>>
    /\ upc = Idle
    /\ hpc = "idle"
    /\ need = NoScrape
    /\ snap = <<>>
    /\ pre = <<>>

\* The answers of the resolver next to the handler: the failure, and the
\* success with several addresses
ConcWorlds == {w \in Worlds : w.err # Nil \/ Len(w.addrs) > 1}

\* what the statements of updateMetrics leave alone
loop == <<mainpc, cfg, pc, pos, ticker, world, inflight, lookups, executed, hist, tickLog>>
handler == <<hpc, need, snap>>

\* The resolver answered: Lookup builds the Result and calls updateMetrics
LookupAnswer ==
    /\ Running
    /\ pc = "lookup"
    /\ upc = Idle
    /\ \E w \in ConcWorlds, d \in Durations, a \in {ArgsAt(pos)} :
          /\ world' = w
          /\ result' = NewResult(a.fqdn, a.dnsServer, a.recordType, resolve(a.recordType, w), d)
    /\ pre' = metrics
    /\ upc' = <<"responseTime", 0>>
    /\ UNCHANGED <<mainpc, cfg, pc, pos, ticker, metrics, inflight, lookups, executed, hist,
                   tickLog, handler>>

\* r.responseTime.With(labels).Set(result.Duration.Seconds())
SetResponseTime ==
    /\ Running
    /\ upc = <<"responseTime", 0>>
    /\ responseTime' = GaugeSet(responseTime, Labels(result), result.Duration)
    /\ upc' = <<"resolutionSuccess", 0>>
    /\ UNCHANGED <<resolutionSuccess, resolvedIpCount, queryTotal, resolvedIpAddress>>
    /\ UNCHANGED <<loop, result, pre, handler>>

\* SetResolutionSuccess writing 1 first and the outcome afterwards
SetResolutionSuccessTwice ==
    /\ Running
    /\ \E k \in {0, 1} :
          /\ upc = <<"resolutionSuccess", k>>
          /\ resolutionSuccess' =
                GaugeSet(resolutionSuccess, Labels(result),
                         IF k = 0 \/ result.Success THEN 1 ELSE 0)
          /\ upc' = IF k = 0 THEN <<"resolutionSuccess", 1>>
                    ELSE IF result.Success THEN <<"resolvedIpCount", 0>>
                    ELSE <<"queryTotal", 0>>
    /\ UNCHANGED <<responseTime, resolvedIpCount, queryTotal, resolvedIpAddress>>
    /\ UNCHANGED <<loop, result, pre, handler>>

\* r.resolutionSuccess.With(labels).Set(0) of the failure branch, Set(1)
\* after it
SetResolutionSuccess ==
    /\ Running
    /\ upc = <<"resolutionSuccess", 0>>
    /\ resolutionSuccess' =
          GaugeSet(resolutionSuccess, Labels(result), IF result.Success THEN 1 ELSE 0)
    /\ upc' = IF result.Success THEN <<"resolvedIpCount", 0>> ELSE <<"queryTotal", 0>>
    /\ UNCHANGED <<responseTime, resolvedIpCount, queryTotal, resolvedIpAddress>>
    /\ UNCHANGED <<loop, result, pre, handler>>

\* r.resolvedIpCount.With(labels).Set(float64(len(result.IPs)))
SetResolvedIpCount ==
    /\ Running
    /\ upc = <<"resolvedIpCount", 0>>
    /\ resolvedIpCount' = GaugeSet(resolvedIpCount, Labels(result), Len(result.IPs))
    /\ upc' = <<"queryTotal", 0>>
    /\ UNCHANGED <<responseTime, resolutionSuccess, queryTotal, resolvedIpAddress>>
    /\ UNCHANGED <<loop, result, pre, handler>>

\* r.queryTotal.With(...).Inc() of either branch; the failure branch returns
\* after it
IncQueryTotal ==
    /\ Running
    /\ upc = <<"queryTotal", 0>>
    /\ queryTotal' =
          CounterInc(queryTotal, <<result.FQDN, result.RecordType, result.DNSServer,
                                   IF result.Success THEN "success" ELSE "failure">>)
    /\ upc' = IF result.Success /\ result.IPs # <<>>
                 THEN <<"resolvedIpAddress", 1>> ELSE <<"return", 0>>
    /\ UNCHANGED <<responseTime, resolutionSuccess, resolvedIpCount, resolvedIpAddress>>
    /\ UNCHANGED <<loop, result, pre, handler>>

\* one iteration of the loop over result.IPs
SetResolvedIpAddress ==
    /\ Running
    /\ upc[1] = "resolvedIpAddress"
    /\ resolvedIpAddress' =
          GaugeSet(resolvedIpAddress,
                   <<result.FQDN, result.RecordType, result.DNSServer,
                     IPString(result.IPs[upc[2]])>>, 1)
    /\ upc' = IF upc[2] < Len(result.IPs)
                 THEN <<"resolvedIpAddress", upc[2] + 1>> ELSE <<"return", 0>>
    /\ UNCHANGED <<responseTime, resolutionSuccess, resolvedIpCount, queryTotal>>
    /\ UNCHANGED <<loop, result, pre, handler>>

\* updateMetrics and Lookup return: the step of the range loops
UpdateReturn ==
    /\ Running
    /\ upc = <<"return", 0>>
    /\ upc' = Idle
    /\ hist' = HistAfter(result)
    /\ tickLog' = Append(tickLog, Labels(result))
    /\ inflight' = inflight \ {[tick |-> executed, at |-> pos]}
    /\ pos' = Seek(pos[1], pos[2], pos[3] + 1)
    /\ pc' = "loop"
    /\ UNCHANGED <<mainpc, cfg, ticker, metrics, result, world, lookups, executed, pre,
                   handler>>

\* The names of the metric vectors, in the order of metrics
Families ==
    <<"dns_response_time_seconds", "dns_resolution_success", "dns_resolved_ip_count",
      "dns_query_total", "dns_resolved_ip_address">>

\* The series of the vectors m, each a vector's name and a label tuple
SeriesIn(m) == UNION {{<<Families[i], k>> : k \in DOMAIN m[i]} : i \in 1..5}

\* What a read of series s in the vectors m returns: the value of the
\* series if it exists
Read(m, s) ==
    LET i == CHOOSE n \in 1..5 : Families[n] = s[1]
    IN IF s[2] \in DOMAIN m[i] THEN {m[i][s[2]]} ELSE {}

\* ScrapeBegin of a handler that waits for the lookup in flight
ScrapeBeginAfterLookup ==
    /\ mainpc = "listening"
    /\ hpc = "idle"
    /\ pc # "lookup"
    /\ hpc' = "reading"
    /\ need' = [series |-> SeriesIn(metrics), at |-> 0]
    /\ snap' = <<>>
    /\ UNCHANGED <<loop, metrics, result, upc, pre>>

\* GET /metrics: promhttp.Handler starts to gather the registered vectors
ScrapeBegin ==
    /\ mainpc = "listening"
    /\ hpc = "idle"
    /\ hpc' = "reading"
    /\ need' = [series |-> SeriesIn(metrics),
                at |-> IF pc = "lookup" /\ upc = Idle THEN lookups ELSE 0]
    /\ snap' = <<>>
    /\ UNCHANGED <<loop, metrics, result, upc, pre>>

\* The handler reads the value of one series it has not read yet
ScrapeRead ==
    /\ mainpc = "listening"
    /\ hpc = "reading"
    /\ \E s \in SeriesIn(metrics) \ DOMAIN snap :
          snap' = [t \in DOMAIN snap \cup {s} |->
                     IF t = s THEN CHOOSE v \in Read(metrics, s) : TRUE ELSE snap[t]]
    /\ UNCHANGED <<loop, metrics, result, upc, pre, hpc, need>>

\* The handler has read every series there was and writes the response
ScrapeEnd ==
    /\ mainpc = "listening"
    /\ hpc = "reading"
    /\ need.series \subseteq DOMAIN snap
    /\ hpc' = "idle"
    /\ need' = NoScrape
    /\ snap' = <<>>
    /\ UNCHANGED <<loop, metrics, result, upc, pre>>

\* LookupDispatch within the lookups of a run
ConcDispatch == lookups < MaxConcLookups /\ LookupDispatch

\* TickerFire with an interval longer than a pass: a boundary elapses
\* while the goroutine waits, and its tick is received before the next one
ConcTick == pc = "wait" /\ tickerC = 0 /\ TickerFire

ConcNext ==
    \/ NewTicker
    \/ ConcTick
    \/ ConcDispatch
    \/ LookupAnswer
    \/ SetResponseTime
    \/ SetResolutionSuccess
    \/ SetResolvedIpCount
    \/ IncQueryTotal
    \/ SetResolvedIpAddress
    \/ UpdateReturn
    \/ EndPass
    \/ TickReceive
    \/ ScrapeBegin
    \/ ScrapeRead
    \/ ScrapeEnd

ConcSpec == ConcInit /\ [][ConcNext]_vars

-----------------------------------------------------------------------------
(* Properties of the metrics *)

Val(vec, k) == IF k \in DOMAIN vec THEN vec[k] ELSE 0
Calls(l) == IF l \in DOMAIN hist THEN hist[l].calls ELSE 0
Triple(k) == <<k[1], k[2], k[3]>>
Known == DOMAIN hist \cup {Triple(k) : k \in DOMAIN queryTotal}
SeriesOf(name, vec) == {<<name, k>> : k \in DOMAIN vec}

Series ==
    SeriesOf("dns_response_time_seconds", responseTime)
      \cup SeriesOf("dns_resolution_success", resolutionSuccess)
      \cup SeriesOf("dns_resolved_ip_count", resolvedIpCount)
      \cup SeriesOf("dns_query_total", queryTotal)
      \cup SeriesOf("dns_resolved_ip_address", resolvedIpAddress)

Texts(ips) == {IPString(ips[i]) : i \in 1..Len(ips)}

\* C1: for every label triple, dns_query_total{status="success"} plus
\* dns_query_total{status="failure"} equals the number of Lookup calls
\* recorded with those labels.
QueryTotalSumsToCalls ==
    \A l \in Known :
        Val(queryTotal, <<l[1], l[2], l[3], "success">>)
          + Val(queryTotal, <<l[1], l[2], l[3], "failure">>) = Calls(l)

\* a triple recorded twice, once as a success and once as a failure
MixedCallsRecorded ==
    \E l \in DOMAIN hist :
        /\ hist[l].calls = 2
        /\ Val(queryTotal, <<l[1], l[2], l[3], "success">>) = 1
        /\ Val(queryTotal, <<l[1], l[2], l[3], "failure">>) = 1

\* C2: the response time and the success gauge of a label triple are those
\* of the most recent Lookup with these labels: the duration it measured,
\* and 1 if it succeeded, 0 if it failed.
LastWriteWins ==
    /\ DOMAIN responseTime = DOMAIN hist
    /\ DOMAIN resolutionSuccess = DOMAIN hist
    /\ \A l \in DOMAIN hist :
          /\ responseTime[l] = hist[l].elapsed
          /\ resolutionSuccess[l] = IF hist[l].succeeded THEN 1 ELSE 0

\* a triple whose second call failed in the shortest time after a success
FastFailureAfterSuccess ==
    \E l \in DOMAIN hist :
        /\ hist[l].calls = 2
        /\ ~hist[l].succeeded
        /\ hist[l].okSeen
        /\ hist[l].elapsed = 1
        /\ responseTime[l] = 1

\* C3: dns_resolved_ip_count of a label triple exists once an outcome of the
\* triple has succeeded, and is the number of addresses of the most recent
\* successful outcome; a failure leaves it as it was.
CountOfLastSuccess ==
    /\ DOMAIN resolvedIpCount \subseteq DOMAIN hist
    /\ \A l \in DOMAIN hist :
          /\ hist[l].okSeen <=> l \in DOMAIN resolvedIpCount
          /\ hist[l].okSeen => resolvedIpCount[l] = hist[l].okCount

\* a triple that failed after a success with two addresses, and a triple
\* that never succeeded
StaleCountAfterFailure ==
    /\ \E l \in DOMAIN hist :
          /\ ~hist[l].succeeded
          /\ hist[l].okSeen
          /\ resolvedIpCount[l] = 2
    /\ \E l \in DOMAIN hist : l \notin DOMAIN resolvedIpCount

\* C4: a dns_resolved_ip_address series that is 1 stays 1 in every step, and
\* a successful Lookup leaves the series of each address of its outcome at 1.
PresenceAppendOnly ==
    [][ /\ \A k \in DOMAIN resolvedIpAddress :
              resolvedIpAddress[k] = 1 =>
                  k \in DOMAIN resolvedIpAddress' /\ resolvedIpAddress'[k] = 1
        /\ (result' # NoResult /\ result' # result /\ result'.Success) =>
              \A t \in Texts(result'.IPs) :
                  /\ <<result'.FQDN, result'.RecordType, result'.DNSServer, t>>
                        \in DOMAIN resolvedIpAddress'
                  /\ resolvedIpAddress'[<<result'.FQDN, result'.RecordType,
                                          result'.DNSServer, t>>] = 1 ]_vars

\* an address is still marked present after a successful outcome of its
\* triple that does not contain it
StaleAddressPresent ==
    /\ result # NoResult
    /\ result.Success
    /\ \E k \in DOMAIN resolvedIpAddress :
          /\ Triple(k) = Labels(result)
          /\ k[4] \notin Texts(result.IPs)
          /\ resolvedIpAddress[k] = 1

\* C5: the set of existing series of the five vectors only grows: every
\* series of a state exists in the next state.
SeriesNeverDeleted ==
    [][ /\ DOMAIN responseTime \subseteq DOMAIN responseTime'
        /\ DOMAIN resolutionSuccess \subseteq DOMAIN resolutionSuccess'
        /\ DOMAIN resolvedIpCount \subseteq DOMAIN resolvedIpCount'
        /\ DOMAIN queryTotal \subseteq DOMAIN queryTotal'
        /\ DOMAIN resolvedIpAddress \subseteq DOMAIN resolvedIpAddress' ]_vars

\* in a second pass, after a failure, with series of all five vectors
SeriesKeptAcrossPasses ==
    /\ executed = 2
    /\ result # NoResult
    /\ ~result.Success
    /\ Labels(result) \in DOMAIN resolvedIpCount
    /\ Cardinality(DOMAIN resolvedIpAddress) >= 2
    /\ Cardinality(Series) >= 8

-----------------------------------------------------------------------------
(* Properties of Lookup *)

\* C6: a Result with Success false has no addresses, and a Result with
\* Success true has no error, whatever the record type and the resolver's
\* answer.
OutcomeInvariant ==
    result # NoResult =>
        /\ ~result.Success => result.IPs = <<>>
        /\ result.Success => result.Error = Nil

\* an A lookup of a name that has addresses, none of them IPv4: a failure
FailureOfNameWithAddresses ==
    /\ result # NoResult
    /\ result.RecordType = "A"
    /\ ~result.Success
    /\ world.addrs # <<>>
    /\ result.Error # Nil

\* C7: the addresses of an A Result are all IPv4, those of an AAAA Result
\* all IPv6, and a Result of another record type holds every address the
\* name has, of both families.
FamilyOfRecordType ==
    result # NoResult =>
        /\ result.RecordType = "A" =>
              \A i \in 1..Len(result.IPs) : result.IPs[i].IP.fam = 4
        /\ result.RecordType = "AAAA" =>
              \A i \in 1..Len(result.IPs) : result.IPs[i].IP.fam = 6
        /\ (result.RecordType \notin {"A", "AAAA"} /\ world.err = Nil) =>
              result.IPs = world.addrs

\* an A lookup of a name with addresses of both families has succeeded
MixedNameResolvedAsA ==
    /\ result # NoResult
    /\ result.RecordType = "A"
    /\ result.Success
    /\ \E i \in 1..Len(world.addrs) : world.addrs[i].IP.fam = 6
    /\ Len(result.IPs) < Len(world.addrs)

-----------------------------------------------------------------------------
(* Properties of the monitoring loop *)

RECURSIVE Flatten(_)
Flatten(ss) == IF ss = <<>> THEN <<>> ELSE Head(ss) \o Flatten(Tail(ss))

\* The label triples of the configuration: targets outer, servers middle,
\* record types inner
CrossProduct ==
    Flatten([ti \in 1..Len(cfg.Targets) |->
        Flatten([si \in 1..Len(cfg.DNSServers) |->
            [ri \in 1..Len(cfg.Targets[ti].RecordTypes) |->
                <<cfg.Targets[ti].FQDN, cfg.Targets[ti].RecordTypes[ri],
                  cfg.DNSServers[si].Address>>]])])

\* C8: the label triples recorded in a pass are, in order, the first ones of
\* the cross-product of the configuration (targets outer, servers middle,
\* record types inner), and all of it, each triple once, when the pass is
\* over; two targets with one server and one record type give two records
\* with distinct fqdn labels.
PassIsCrossProduct ==
    /\ Len(tickLog) <= Len(CrossProduct)
    /\ tickLog = SubSeq(CrossProduct, 1, Len(tickLog))
    /\ pc = "wait" => tickLog = CrossProduct
    /\ (pc = "wait" /\ Len(cfg.Targets) = 2 /\ Len(cfg.DNSServers) = 1
          /\ \A ti \in 1..2 : Len(cfg.Targets[ti].RecordTypes) = 1
          /\ cfg.Targets[1].FQDN # cfg.Targets[2].FQDN) =>
            /\ Len(tickLog) = 2
            /\ tickLog[1][1] # tickLog[2][1]

\* the second pass of two targets x one server x one record type is over
SecondPassOfTwoTargets ==
    /\ pc = "wait"
    /\ executed = 2
    /\ Len(cfg.DNSServers) = 1
    /\ Len(tickLog) = 2
    /\ tickLog[1][1] # tickLog[2][1]

Recorded == LET RECURSIVE Sum(_)
                Sum(S) == IF S = {} THEN 0
                          ELSE LET l == CHOOSE x \in S : TRUE
                               IN hist[l].calls + Sum(S \ {l})
            IN Sum(DOMAIN hist)

\* C9: at most one lookup is outstanding, every lookup but an outstanding
\* one has been recorded, an outstanding lookup belongs to the current pass,
\* and none is outstanding while the loop waits for the ticker.
TicksNeverOverlap ==
    /\ Cardinality(inflight) <= 1
    /\ lookups = Recorded + Cardinality(inflight)
    /\ \A f \in inflight : f.tick = executed
    /\ pc \in {"loop", "wait"} => inflight = {}
    /\ pc = "lookup" => Cardinality(inflight) = 1

\* a lookup of the second pass is outstanding after two interval boundaries
LookupOutstandingInSecondPass ==
    /\ Cardinality(inflight) = 1
    /\ executed = 2
    /\ fired >= 2
    /\ Recorded >= 2

\* C10 as claimed: when the loop waits and no tick is pending, the passes
\* executed are 1 plus the interval boundaries fired.
NoTickSkipped ==
    (pc = "wait" /\ tickerC = 0) => executed = 1 + fired

\* C10: ticker.C holds at most one tick, a boundary that finds a tick
\* pending is dropped, and the passes executed are 1 plus the boundaries
\* fired that were neither dropped nor are still pending.
TicksDelayedOrDropped ==
    /\ tickerC <= 1
    /\ tickerOn => executed + tickerC + dropped = 1 + fired
    /\ ~tickerOn => executed = 0 /\ fired = 0 /\ tickerC = 0 /\ dropped = 0

\* the loop waits after a second pass whose predecessor outlasted two
\* interval boundaries
BoundaryDroppedDuringPass ==
    /\ pc = "wait"
    /\ tickerC = 0
    /\ executed = 2
    /\ dropped >= 1
    /\ Recorded >= 2

-----------------------------------------------------------------------------
(* Properties of main *)

\* LoadConfig has returned an error: main holds no configuration
ConfigFailed == mainpc # "load" /\ cfg = EmptyConfig

\* C14: once LoadConfig has returned an error the process is over: main is
\* at log.Fatalf and stays there, the monitoring goroutine is never
\* started, no lookup is dispatched, no series exists and the listener is
\* never started.
ConfigErrorIsFatal ==
    [][ /\ ConfigFailed => ConfigFailed'
        /\ ConfigFailed' =>
              /\ mainpc' = "fatal"
              /\ pc' = "none"
              /\ ~tickerOn'
              /\ lookups' = 0
              /\ inflight' = {}
              /\ executed' = 0
              /\ Series' = {} ]_vars

\* LoadConfig has failed
ConfigErrorSeen ==
    /\ ConfigFailed
    /\ mainpc = "fatal"
    /\ lookups = 0

\* C16: a step that records a call for a label triple adds exactly 1 to the
\* dns_query_total series of the status of its outcome and leaves the series
\* of the other status as it was; no other step changes a counter.
CounterPerOutcome ==
    [][ \A l \in Known' :
            LET ok == <<l[1], l[2], l[3], "success">>
                ko == <<l[1], l[2], l[3], "failure">>
            IN IF Calls(l)' = Calls(l) + 1
                  THEN IF hist'[l].succeeded
                          THEN /\ Val(queryTotal', ok) = Val(queryTotal, ok) + 1
                               /\ Val(queryTotal', ko) = Val(queryTotal, ko)
                          ELSE /\ Val(queryTotal', ko) = Val(queryTotal, ko) + 1
                               /\ Val(queryTotal', ok) = Val(queryTotal, ok)
                  ELSE /\ Calls(l)' = Calls(l)
                       /\ Val(queryTotal', ok) = Val(queryTotal, ok)
                       /\ Val(queryTotal', ko) = Val(queryTotal, ko) ]_vars

\* a triple whose second call succeeded after a failure
SuccessCountedAfterFailure ==
    \E l \in DOMAIN hist :
        /\ hist[l].calls = 2
        /\ hist[l].succeeded
        /\ Val(queryTotal, <<l[1], l[2], l[3], "success">>) = 1
        /\ Val(queryTotal, <<l[1], l[2], l[3], "failure">>) = 1

Others(vec, l) == [k \in {j \in DOMAIN vec : Triple(j) # l} |-> vec[k]]

\* C17: a step that records a call leaves every series of another label
\* triple as it was, in all five vectors, and creates none; the record of a
\* failure leaves dns_resolved_ip_count and dns_resolved_ip_address as they
\* were altogether.
OtherTriplesUntouched ==
    [][ hist' # hist =>
          LET l == Labels(result') IN
          /\ Others(responseTime', l) = Others(responseTime, l)
          /\ Others(resolutionSuccess', l) = Others(resolutionSuccess, l)
          /\ Others(resolvedIpCount', l) = Others(resolvedIpCount, l)
          /\ Others(queryTotal', l) = Others(queryTotal, l)
          /\ Others(resolvedIpAddress', l) = Others(resolvedIpAddress, l)
          /\ ~result'.Success =>
                /\ resolvedIpCount' = resolvedIpCount
                /\ resolvedIpAddress' = resolvedIpAddress ]_vars

\* a failure of a triple that has a count, next to series of another triple
\* of the same name
FailureNextToOtherTriple ==
    /\ result # NoResult
    /\ ~result.Success
    /\ Labels(result) \in DOMAIN resolvedIpCount
    /\ \E l \in DOMAIN resolvedIpCount :
          /\ l # Labels(result)
          /\ l[1] = result.FQDN

\* C18: the first pass starts in the step that creates the ticker, before
\* any interval boundary; every later pass starts by receiving a tick from
\* ticker.C; the ticker is created once, before the first pass, and never
\* again.
FirstPassImmediate ==
    [][ /\ executed' # executed =>
              \/ /\ executed = 0
                 /\ pc = "start"
                 /\ ~tickerOn /\ tickerOn'
                 /\ fired = 0
                 /\ pc' = "loop"
              \/ /\ executed >= 1
                 /\ pc = "wait"
                 /\ tickerOn
                 /\ tickerC = 1 /\ tickerC' = 0
                 /\ pc' = "loop"
        /\ tickerOn => tickerOn'
        /\ (tickerOn' /\ ~tickerOn) => executed = 0 /\ executed' = 1 ]_vars

\* the first pass is over before any interval boundary, and a second pass
\* has started after the first boundary
SecondPassAfterFirstBoundary ==
    /\ executed = 2
    /\ fired = 1
    /\ dropped = 0
    /\ pc = "lookup"

Range(seq) == {seq[i] : i \in 1..Len(seq)}

\* C19: a Lookup with a record type other than exactly "A" or "AAAA" takes
\* the addresses of both families as the resolver returns them, and its
\* series carry the record type as configured.
ExactRecordTypeMatch ==
    (result # NoResult /\ result.RecordType \notin {"A", "AAAA"}) =>
        /\ world.err = Nil => result.IPs = world.addrs
        /\ \E ti \in 1..Len(cfg.Targets) :
              /\ cfg.Targets[ti].FQDN = result.FQDN
              /\ result.RecordType \in Range(cfg.Targets[ti].RecordTypes)
        /\ <<result.FQDN, result.RecordType, result.DNSServer>> \in DOMAIN responseTime
        /\ \A t \in Texts(result.IPs) :
              <<result.FQDN, result.RecordType, result.DNSServer, t>>
                  \in DOMAIN resolvedIpAddress

\* a lookup of record type "a" returned both families, next to the series
\* of record type "A" of the same name and server
LowerCaseResolvedAsAny ==
    /\ result # NoResult
    /\ result.RecordType = "a"
    /\ result.Success
    /\ \E i, j \in 1..Len(result.IPs) :
          result.IPs[i].IP.fam = 4 /\ result.IPs[j].IP.fam = 6
    /\ <<result.FQDN, "A", result.DNSServer>> \in DOMAIN responseTime
    /\ <<result.FQDN, "a", result.DNSServer>> \in DOMAIN responseTime

\* C20: the lists of the configuration are those of the file, empty ones
\* included; every lookup dispatched and every series is of a triple of the
\* cross-product, so none is of a target without record types and none
\* exists without a DNS server.
NoDefaultForEmptyList ==
    /\ (mainpc # "load" /\ cfg # EmptyConfig) =>
          \E f \in Files :
              /\ f.readable /\ f.wellformed
              /\ cfg.Targets = f.yaml.Targets
              /\ cfg.DNSServers = f.yaml.DNSServers
    /\ \A f \in inflight :
          /\ f.at[1] \in 1..Len(cfg.Targets)
          /\ f.at[2] \in 1..Len(cfg.DNSServers)
          /\ f.at[3] \in 1..Len(cfg.Targets[f.at[1]].RecordTypes)
    /\ \A s \in Series : Triple(s[2]) \in Range(CrossProduct)
    /\ CrossProduct = <<>> => lookups = 0

\* the second pass of a configuration with a target without record types:
\* the other target has series, this one has none
EmptyTargetSkipped ==
    /\ executed = 2
    /\ Series # {}
    /\ \E ti \in 1..Len(cfg.Targets) :
          /\ cfg.Targets[ti].RecordTypes = <<>>
          /\ \A s \in Series : s[2][1] # cfg.Targets[ti].FQDN

\* the last Result returned in the pass under way is a failed one, and the
\* lookups left in the run are enough for the rest of the pass
FailedInPass ==
    /\ Running
    /\ tickLog # <<>>
    /\ result # NoResult
    /\ ~result.Success
    /\ lookups + (Len(CrossProduct) - Len(tickLog)) <= MaxLookups

\* C11: after a failed lookup the loop goes on: as long as the process
\* runs, the pass of the failure is completed, with every triple of the
\* cross-product recorded, and when a tick is or will be there the next
\* pass starts (and empties the log of the pass).
LoopSurvivesFailure ==
    /\ FailedInPass ~> (~Running \/ (pc = "wait" /\ tickLog = CrossProduct))
    /\ (FailedInPass /\ (tickerC = 1 \/ fired < MaxFired)) ~>
          (~Running \/ (pc = "loop" /\ tickLog = <<>>))

\* a pass is over whose first lookup failed and whose last one succeeded
PassCompletedAfterFailure ==
    /\ pc = "wait"
    /\ Len(tickLog) >= 2
    /\ tickLog = CrossProduct
    /\ hist[tickLog[1]].calls = 1
    /\ ~hist[tickLog[1]].succeeded
    /\ result.Success

\* a Result that breaks the invariant of an outcome: a failure with
\* addresses, or a success with an error
Malformed(r) ==
    \/ ~r.Success /\ r.IPs # <<>>
    \/ r.Success /\ r.Error # Nil

\* C13: updateMetrics rejects a malformed Result: recording a failure that
\* carries addresses, or a success that carries an error, changes no series
\* of any metric vector.
MalformedRejected ==
    [][(lookups' = lookups + 1 /\ Malformed(result')) => UNCHANGED metrics]_vars

-----------------------------------------------------------------------------
(* Properties of updateMetrics next to the handler *)

\* The five vectors after updateMetrics(r) as a whole, from the vectors m
\* before it
After(m, r) ==
    LET l == Labels(r)
        ipLabels == { <<r.FQDN, r.RecordType, r.DNSServer, IPString(r.IPs[i])>> :
                        i \in 1..Len(r.IPs) }
    IN << GaugeSet(m[1], l, r.Duration),
          GaugeSet(m[2], l, IF r.Success THEN 1 ELSE 0),
          IF r.Success THEN GaugeSet(m[3], l, Len(r.IPs)) ELSE m[3],
          CounterInc(m[4], <<r.FQDN, r.RecordType, r.DNSServer,
                             IF r.Success THEN "success" ELSE "failure">>),
          IF r.Success
             THEN [k \in DOMAIN m[5] \cup ipLabels |-> IF k \in ipLabels THEN 1 ELSE m[5][k]]
             ELSE m[5] >>

NeverBlocked ==
    /\ (mainpc = "listening" /\ hpc = "idle") => ENABLED ScrapeBegin
    /\ hpc = "reading" => (ENABLED ScrapeRead \/ ENABLED ScrapeEnd)
    /\ (hpc = "reading" /\ Running /\ pc = "loop" /\ pos # Done /\ lookups < MaxConcLookups)
          => ENABLED ConcDispatch

\* a scrape begun while a lookup is in flight has read every series, and
\* the lookup is still in flight
ScrapeDuringLookup ==
    /\ hpc = "reading"
    /\ pc = "lookup"
    /\ upc = Idle
    /\ need.at = lookups
    /\ need.series # {}
    /\ need.series \subseteq DOMAIN snap
    /\ ENABLED ScrapeEnd

====
